---- MODULE Spec2Model ----
(***************************************************************************)
(* The capability broker of loom-core (core/src/action_broker.rs): a       *)
(* DashMap registry from capability name to provider, and invoke(), which  *)
(* looks a provider up, runs it under tokio::time::timeout and maps the    *)
(* outcome to an ActionResult.  Providers are the EchoTts implementations  *)
(* of core/examples and an unconstrained implementor of the                *)
(* CapabilityProvider trait.                                               *)
(***************************************************************************)
EXTENDS Integers, Sequences, FiniteSets, TLC

VARIABLES registry, shardOf, calls, regs, lister, lastReg

vars == <<registry, shardOf, calls, regs, lister, lastReg>>

(* ------------------------------ bounds --------------------------------- *)

\* Number of shards of the DashMap; each has its own reader/writer lock.
NumShards == 2

\* Number of times a suspended provider future is polled and suspends again.
MaxWork == 1

(* --------------------------- program constants ------------------------- *)

\* action_broker.rs:56, the broker's default timeout in milliseconds.
DefaultTimeoutMs == 30000

(* ------------------------------ universe ------------------------------- *)

\* Callers of invoke(): one async task each.
Calls == {"c1", "c2"}

\* The caller of the single-call specification.
Caller == {"c1"}

\* Threads that call register_provider() from outside any provider.
Registrars == {"r1"}

\* Every thread of control that can run register_provider(): a registrar,
\* or the task of a call whose provider calls back into the broker.
Threads == Registrars \cup Calls

Shards == 1..NumShards

\* Capability names used as registry keys, and one that is never registered.
Names == {"tts.echo", "dyn.tool"}

GhostName == "ghost.tool"

NoProvider == "none"

\* EchoTts of examples/echo_tts.rs and examples/e2e_tool_use.rs, EchoTts of
\* examples/echo_tts_with_context.rs, and two arbitrary implementors of the
\* CapabilityProvider trait that register under the same name.
EchoProviders == {"EchoTts", "EchoTtsCtx"}

DynProviders == {"DynA", "DynB"}

Providers == EchoProviders \cup DynProviders

\* The providers of the concurrent specification: two arbitrary implementors
\* named "dyn.tool" and one that registers itself as "tts.echo".
ConcProviders == {"DynA", "DynB", "DynC"}

\* CapabilityProvider::descriptor
Descriptor(p) ==
    [name     |-> IF p \in EchoProviders \cup {"DynC"} THEN "tts.echo" ELSE "dyn.tool",
     version  |-> "0.1.0",
     provider |-> "PROVIDER_NATIVE"]

StatusOk == "ACTION_OK"

StatusError == "ACTION_ERROR"

StatusTimeout == "ACTION_TIMEOUT"

\* Option<ActionError>: the empty sequence is None, a one-element sequence Some.
NoError == << >>

SomeError(code, message) == << [code |-> code, message |-> message, details |-> << >>] >>

EmptyOutput == << >>

(* ------------------------------ inputs --------------------------------- *)

\* The ids a caller assigns to its calls.
CallIds(c) == IF c = "c1" THEN {"call_001", "call_ctx_001"} ELSE {"call_002"}

TimeoutInputs == {-1, 0, 100}

\* Payload bytes: a JSON object with a string member "text", or something else.
PayloadInputs == { <<"text", "hi">>, <<"junk">> }

\* The calls a caller may issue.
CallInputs(c) ==
    [id             : CallIds(c),
     capability     : Names \cup {GhostName},
     version        : {"0.1.0"},
     payload        : PayloadInputs,
     headers        : {<< >>},
     timeout_ms     : TimeoutInputs,
     correlation_id : {"session_1"},
     qos            : {"QOS_REALTIME"}]

\* The fields of a call other than id, capability and timeout_ms, as two
\* callers may set them: the defaults of the examples, or all different.
Advisory ==
    { [version |-> "0.1.0", payload |-> <<"text", "hi">>, headers |-> << >>,
       correlation_id |-> "session_1", qos |-> "QOS_REALTIME"],
      [version |-> "9.9.9", payload |-> <<"junk">>, headers |-> <<"trace", "on">>,
       correlation_id |-> "session_2", qos |-> "QOS_BACKGROUND"] }

\* The id a caller gives its calls in the concurrent specification.
ConcCallId(c) == IF c = "c1" THEN "call_001" ELSE "call_002"

\* The calls a caller may issue in the concurrent specification.
ConcInputs(c) ==
    { [id |-> ConcCallId(c), capability |-> n, version |-> a.version,
       payload |-> a.payload, headers |-> a.headers, timeout_ms |-> t,
       correlation_id |-> a.correlation_id, qos |-> a.qos] :
        n \in Names, t \in {0, 100}, a \in Advisory }

\* The calls of ConcInputs(c) that set the fields of the examples: version
\* "0.1.0", a text payload, and a deadline of their own.
PlainInputs(c) ==
    {call \in ConcInputs(c) : call.version = "0.1.0" /\ call.timeout_ms > 0}

NoCall ==
    [id |-> "", capability |-> "", version |-> "", payload |-> << >>,
     headers |-> << >>, timeout_ms |-> 0, correlation_id |-> "", qos |-> ""]

(* ------------------------- provider behaviour -------------------------- *)

\* serde_json::from_slice(..).get("text").as_str(): Some(text) or None.
ExtractText(payload) ==
    IF Len(payload) = 2 /\ payload[1] = "text" THEN << payload[2] >> ELSE << >>

BadPayloadResult(call) ==
    [id     |-> call.id,
     status |-> StatusError,
     output |-> EmptyOutput,
     error  |-> SomeError("BAD_PAYLOAD", <<"expected JSON {text}">>)]

\* EchoTts::invoke of examples/echo_tts.rs (and examples/e2e_tool_use.rs).
EchoTtsInvoke(call) ==
    LET text == ExtractText(call.payload) IN
    IF text = << >>
    THEN BadPayloadResult(call)
    ELSE [id     |-> call.id,
          status |-> StatusOk,
          output |-> <<"spoken", text[1]>>,
          error  |-> NoError]

\* EchoTts::invoke of examples/echo_tts_with_context.rs.
EchoTtsCtxInvoke(call) ==
    LET text == ExtractText(call.payload) IN
    IF text = << >>
    THEN BadPayloadResult(call)
    ELSE [id     |-> "call_ctx_001",
          status |-> StatusOk,
          output |-> <<"spoken", text[1]>>,
          error  |-> NoError]

EchoInvoke(p, call) ==
    IF p = "EchoTtsCtx" THEN EchoTtsCtxInvoke(call) ELSE EchoTtsInvoke(call)

\* What an arbitrary implementor of CapabilityProvider::invoke may return as
\* Ok(ActionResult): the trait constrains no field of the result.
DynResults(call) ==
    { [id |-> call.id, status |-> StatusOk, output |-> <<"out">>, error |-> NoError],
      [id |-> call.id, status |-> StatusError, output |-> EmptyOutput,
       error |-> SomeError("BAD_PAYLOAD", <<"rejected">>)],
      [id |-> call.id, status |-> StatusTimeout, output |-> EmptyOutput,
       error |-> SomeError("UPSTREAM_TIMEOUT", <<"remote timed out">>)],
      [id |-> "stale_id", status |-> StatusOk, output |-> <<"out">>, error |-> NoError],
      [id |-> call.id, status |-> StatusError, output |-> <<"partial">>, error |-> NoError] }

\* What an arbitrary implementor may return as Err(LoomError).
DynFailures ==
    { [variant |-> "PluginError", msg |-> <<"boom">>],
      [variant |-> "AgentError", msg |-> <<"no tools available">>] }

\* LoomError's Display, used by err.to_string().
ErrToString(e) == <<e.variant, ": ">> \o e.msg

(* --------------------- outcomes of provider and invoke ----------------- *)

\* Poll state of the provider future / return value of invoke():
\* kind is "Pending", "Ok" (res holds the ActionResult), "Err" (err holds
\* the LoomError) or "Panic" (the future unwound).
Pending == [kind |-> "Pending", res |-> << >>, err |-> << >>]

RetOk(r) == [kind |-> "Ok", res |-> <<r>>, err |-> << >>]

RetErr(e) == [kind |-> "Err", res |-> << >>, err |-> <<e>>]

RetPanic == [kind |-> "Panic", res |-> << >>, err |-> << >>]

\* action_broker.rs:53
CapabilityNotFound(name) ==
    [variant |-> "PluginError", msg |-> <<"Capability not found: ", name>>]

(* ------------------------------ registry ------------------------------- *)

\* A lookup that falls back to some provider when the name is unbound.
LookupOrDefault(reg, name) ==
    IF name \in DOMAIN reg /\ reg[name] # NoProvider THEN reg[name] ELSE "DynA"

\* A lookup that finds the entry missing while its replacement is under way
\* (a replace made of a remove and an insert).
LookupAbsentWhileReplaced(reg, name) ==
    IF name \in DOMAIN reg
          /\ \A t \in Threads : ~(regs[t].pc = "waiting"
                                   /\ Descriptor(regs[t].prov).name = name)
    THEN reg[name] ELSE NoProvider

\* DashMap::get: the provider bound to a name, or NoProvider.
Lookup(reg, name) == IF name \in DOMAIN reg THEN reg[name] ELSE NoProvider

\* An insert that keeps an existing binding (entry().or_insert()).
InsertIfAbsent(reg, name, p) ==
    IF reg[name] = NoProvider THEN [reg EXCEPT ![name] = p] ELSE reg

\* An insert into a map that is rebuilt for each registration.
InsertIntoFreshMap(reg, name, p) ==
    [n \in DOMAIN reg |-> IF n = name THEN p ELSE NoProvider]

\* DashMap::insert: bind name to p, replacing a previous binding.
Insert(reg, name, p) == [reg EXCEPT ![name] = p]

\* The shard a key hashes to; GhostName hashes somewhere too.
ShardOfName(name) == IF name \in Names THEN shardOf[name] ELSE 1

\* An invoke that clones the provider handle and lets the guard go before
\* it awaits.
HoldsGuardForLookupOnly(c) == FALSE

\* A call holds the dashmap Ref (a shard read guard) obtained at line 50-53
\* from the lookup until invoke() returns.
HoldsGuard(c) == calls[c].pc = "awaiting"

Readers(s) ==
    Cardinality({c \in Calls : HoldsGuard(c) /\ ShardOfName(calls[c].call.capability) = s})

\* DashMap::insert needs the shard's write lock: no read guard may be out.
WriteLockFree(s) == Readers(s) = 0

\* The threads inside register_provider that wait for the write lock of s.
WritersWaiting(s) ==
    {t \in Threads : regs[t].pc = "waiting"
                      /\ ShardOfName(Descriptor(regs[t].prov).name) = s}

\* The writers of s that are kept waiting by a read guard: what a lookup in
\* s passes when it takes the read lock (recorded for the claims only).
WritersBlocked(s) == IF WriteLockFree(s) THEN {} ELSE WritersWaiting(s)

\* A lock that turns readers away while a writer waits.
ReadLockFreeWriterFirst(s) == WritersWaiting(s) = {}

\* DashMap::get needs the shard's read lock, which is refused only while a
\* writer holds the shard; insert holds it for no longer than its own step,
\* and a writer that waits does not keep readers out.
ReadLockFree(s) == TRUE

\* A routing key that carries the requested version.
RoutingKeyWithVersion(call) ==
    IF call.version = "0.1.0" THEN call.capability ELSE GhostName

\* action_broker.rs:48, the key invoke() looks up.
RoutingKey(call) == call.capability

(* -------------------------------- Init --------------------------------- *)

IdleCall ==
    [pc |-> "idle", call |-> NoCall, seen |-> NoProvider, prov |-> NoProvider,
     dur |-> 0, elapsed |-> 0, starts |-> 0, work |-> 0, pout |-> Pending,
     ret |-> Pending, overtook |-> {}]

IdleReg == [pc |-> "idle", prov |-> NoProvider]

IdleLister ==
    [pc |-> "idle", next |-> 1, acc |-> << >>,
     snap |-> [n \in Names |-> NoProvider], clean |-> TRUE, hist |-> {}]

Init ==
    /\ registry = [n \in Names |-> NoProvider]
    /\ shardOf \in {f \in [Names -> Shards] : f["tts.echo"] = 1}
    /\ calls = [c \in Calls |-> IdleCall]
    /\ regs = [t \in Threads |-> IdleReg]
    /\ lister = IdleLister
    /\ lastReg = [n \in Names |-> [prov |-> NoProvider, replaced |-> FALSE]]

(* ------------------------------- invoke -------------------------------- *)

\* A default that applies to negative timeouts only.
EffectiveTimeoutNegativeOnly(timeout_ms) ==
    IF timeout_ms < 0 THEN DefaultTimeoutMs ELSE timeout_ms

\* action_broker.rs:55-59
EffectiveTimeout(timeout_ms) ==
    IF timeout_ms <= 0 THEN DefaultTimeoutMs ELSE timeout_ms

\* An Error wrapper that carries the timeout arm's message.
CapabilityErrorResultFixedMessage(call_id, e) ==
    [id     |-> call_id,
     status |-> StatusError,
     output |-> EmptyOutput,
     error  |-> SomeError("CAPABILITY_ERROR", <<"Action timed out">>)]

\* action_broker.rs:65-77, the result built for a provider Err.
CapabilityErrorResult(call_id, e) ==
    [id     |-> call_id,
     status |-> StatusError,
     output |-> EmptyOutput,
     error  |-> SomeError("CAPABILITY_ERROR", ErrToString(e))]

\* A timeout arm that reports the Error wrapper's status and code.
TimeoutResultAsError(call_id) ==
    [id     |-> call_id,
     status |-> StatusError,
     output |-> EmptyOutput,
     error  |-> SomeError("CAPABILITY_ERROR", <<"Action timed out">>)]

\* action_broker.rs:78-90, the result built when the timer wins.
TimeoutResult(call_id) ==
    [id     |-> call_id,
     status |-> StatusTimeout,
     output |-> EmptyOutput,
     error  |-> SomeError("TIMEOUT", <<"Action timed out">>)]

\* Match arms that stamp the call's id on a provider's result.
MapOutcomeStampId(call_id, pout) ==
    CASE pout.kind = "Ok"    -> RetOk([pout.res[1] EXCEPT !.id = call_id])
      [] pout.kind = "Err"   -> RetOk([id |-> call_id, status |-> StatusError,
                                       output |-> EmptyOutput,
                                       error |-> SomeError("CAPABILITY_ERROR",
                                                           ErrToString(pout.err[1]))])
      [] pout.kind = "Panic" -> RetPanic

\* action_broker.rs:63-77, the match arms for a completed provider future.
\* A panic inside the provider future is caught nowhere: it unwinds through
\* timeout(..).await and invoke() into the caller.
MapOutcome(call_id, pout) ==
    CASE pout.kind = "Ok"    -> RetOk(pout.res[1])
      [] pout.kind = "Err"   -> RetOk(CapabilityErrorResult(call_id, pout.err[1]))
      [] pout.kind = "Panic" -> RetPanic

\* The record of a call whose invoke() has returned ret, the provider
\* future having ended as pout.
Returned(rec, pout, ret) ==
    [rec EXCEPT !.pc = "done", !.pout = pout, !.ret = ret]

\* action_broker.rs:47-63: look the provider up; fail with the routing error
\* when the name is unbound; otherwise keep the guard, compute the deadline,
\* create the provider future and poll it under timeout().  EchoTts::invoke
\* never suspends, so its first poll completes and invoke() returns at once;
\* any other provider is left pending.
InvokeStart(c, call) ==
    /\ calls[c].pc \in {"idle", "done"}
    /\ regs[c].pc = "idle"
    /\ ReadLockFree(ShardOfName(RoutingKey(call)))
    /\ LET p     == Lookup(registry, RoutingKey(call))
           seen  == IF call.capability \in Names THEN registry[call.capability]
                                                 ELSE NoProvider
           dur   == EffectiveTimeout(call.timeout_ms)
           over  == WritersBlocked(ShardOfName(RoutingKey(call)))
           fresh == [pc |-> "awaiting", call |-> call, seen |-> seen, prov |-> p,
                     dur |-> dur, elapsed |-> 0, starts |-> 1, work |-> 0,
                     pout |-> Pending, ret |-> Pending, overtook |-> over]
           echo  == RetOk(EchoInvoke(p, call))
       IN  calls' = [calls EXCEPT ![c] =
             IF p = NoProvider
             THEN [pc |-> "done", call |-> call, seen |-> seen, prov |-> NoProvider,
                   dur |-> 0, elapsed |-> 0, starts |-> 0, work |-> 0,
                   pout |-> Pending,
                   ret |-> RetErr(CapabilityNotFound(call.capability)),
                   overtook |-> over]
             ELSE IF p \in EchoProviders
             THEN Returned(fresh, echo, MapOutcome(call.id, echo))
             ELSE fresh]
    /\ UNCHANGED <<registry, shardOf, regs, lister, lastReg>>

\* The provider future of call c can be polled: the call is awaiting and
\* its thread is not inside register_provider.
Running(c) ==
    /\ calls[c].pc = "awaiting"
    /\ regs[c].pc = "idle"

\* The provider future of c, when polled, would suspend again: nothing has
\* completed it yet.
Suspended(c) == Running(c) /\ calls[c].pout.kind = "Pending"

\* A provider that keeps working once invoke() has returned Timeout.
DetachedProgress(c) ==
    /\ calls[c].pc \in {"awaiting", "done"}
    /\ calls[c].starts = 1
    /\ calls[c].pout.kind = "Pending"
    /\ calls[c].work < MaxWork

\* The provider future exists and is polled only inside invoke(): it is
\* created at line 62, polled by timeout(..).await at line 63 and dropped
\* when invoke() returns, so it can advance only while the call is awaiting.
CanProgress(c) == Suspended(c) /\ calls[c].work < MaxWork

\* A poll that looks at the timer before the provider future.
CanTimeOutTimerFirst(c) ==
    Running(c) /\ calls[c].elapsed >= calls[c].dur

\* action_broker.rs:63, tokio's Timeout::poll: the provider future is polled
\* first, and the timer decides only when that future is still pending.
CanTimeOut(c) ==
    Suspended(c) /\ calls[c].elapsed >= calls[c].dur

\* action_broker.rs:64: the provider future completes with Ok(r).
InvokeReturnOk(c, r) ==
    /\ Suspended(c)
    /\ r \in DynResults(calls[c].call)
    /\ calls' = [calls EXCEPT ![c] =
                   Returned(calls[c], RetOk(r), MapOutcome(calls[c].call.id, RetOk(r)))]
    /\ UNCHANGED <<registry, shardOf, regs, lister, lastReg>>

\* action_broker.rs:65-77: the provider future completes with Err(e).
InvokeReturnErr(c, e) ==
    /\ Suspended(c)
    /\ calls' = [calls EXCEPT ![c] =
                   Returned(calls[c], RetErr(e), MapOutcome(calls[c].call.id, RetErr(e)))]
    /\ UNCHANGED <<registry, shardOf, regs, lister, lastReg>>

\* action_broker.rs:63: the provider future panics while it is polled.
InvokePanic(c) ==
    /\ Suspended(c)
    /\ calls' = [calls EXCEPT ![c] =
                   Returned(calls[c], RetPanic, MapOutcome(calls[c].call.id, RetPanic))]
    /\ UNCHANGED <<registry, shardOf, regs, lister, lastReg>>

\* tokio's timer: the deadline of call c elapses.
TimerFires(c) ==
    /\ calls[c].pc = "awaiting"
    /\ calls[c].elapsed < calls[c].dur
    /\ calls' = [calls EXCEPT ![c].elapsed = calls[c].dur]
    /\ UNCHANGED <<registry, shardOf, regs, lister, lastReg>>

\* action_broker.rs:78-90: the provider future returned Pending and the
\* deadline has elapsed; invoke() returns the Timeout result.
InvokeTimeout(c) ==
    /\ CanTimeOut(c)
    /\ calls' = [calls EXCEPT ![c] =
                   Returned(calls[c], calls[c].pout,
                            RetOk(TimeoutResult(calls[c].call.id)))]
    /\ UNCHANGED <<registry, shardOf, regs, lister, lastReg>>

\* The provider future is polled, advances to its next await and suspends.
ProviderProgress(c) ==
    /\ CanProgress(c)
    /\ calls' = [calls EXCEPT ![c].work = calls[c].work + 1]
    /\ UNCHANGED <<registry, shardOf, regs, lister, lastReg>>

\* What the provider future is waiting for arrives: its next poll will
\* complete with outcome out.
ProviderReady(c, out) ==
    /\ Suspended(c)
    /\ out.kind # "Pending"
    /\ calls' = [calls EXCEPT ![c].pout = out]
    /\ UNCHANGED <<registry, shardOf, regs, lister, lastReg>>

\* action_broker.rs:63-77: the task is polled, the provider future
\* completes, and invoke() returns what the match makes of its outcome.
InvokeComplete(c) ==
    /\ Running(c)
    /\ calls[c].pout.kind # "Pending"
    /\ calls' = [calls EXCEPT ![c] =
                   Returned(calls[c], calls[c].pout,
                            MapOutcome(calls[c].call.id, calls[c].pout))]
    /\ UNCHANGED <<registry, shardOf, regs, lister, lastReg>>

(* -------------------------- register_provider -------------------------- *)

\* The descriptors a listing of registry reg consists of.
Bound(reg) == {Descriptor(reg[n]) : n \in {m \in Names : reg[m] # NoProvider}}

\* action_broker.rs:32-34: a thread enters register_provider(q); a call's
\* own task does so when its provider calls back into the broker.
RegisterBegin(t, q) ==
    /\ regs[t].pc = "idle"
    /\ t \in Calls => Suspended(t)
    /\ regs' = [regs EXCEPT ![t] = [pc |-> "waiting", prov |-> q]]
    /\ UNCHANGED <<registry, shardOf, calls, lister, lastReg>>

\* action_broker.rs:35: DashMap::insert takes the shard's write lock, which
\* it gets only once no read guard of the shard is out, and binds the name.
RegisterInsert(t) ==
    /\ regs[t].pc = "waiting"
    /\ LET q == regs[t].prov
           name == Descriptor(q).name
       IN  /\ WriteLockFree(ShardOfName(name))
           /\ registry' = Insert(registry, name, q)
           /\ lastReg' = [lastReg EXCEPT ![name] =
                            [prov |-> q, replaced |-> registry[name] # NoProvider]]
    /\ regs' = [regs EXCEPT ![t] = IdleReg]
    /\ lister' = IF lister.pc = "iter"
                  THEN [lister EXCEPT !.clean = FALSE,
                                      !.hist = lister.hist \cup {Bound(registry')}]
                  ELSE lister
    /\ UNCHANGED <<shardOf, calls>>

(* -------------------------- list_capabilities -------------------------- *)

RECURSIVE SetToSeq(_)
SetToSeq(S) ==
    IF S = {} THEN << >>
    ELSE LET x == CHOOSE y \in S : TRUE IN <<x>> \o SetToSeq(S \ {x})

\* The descriptors of the entries of one shard, as DashMap::iter yields them.
ShardDescriptors(reg, s) ==
    LET bound == {n \in Names : shardOf[n] = s /\ reg[n] # NoProvider}
        ns    == SetToSeq(bound)
    IN  [i \in 1..Len(ns) |-> Descriptor(reg[ns[i]])]

\* action_broker.rs:39-41: list_capabilities() creates the iterator.
ListBegin ==
    /\ lister.pc \in {"idle", "done"}
    /\ lister' = [pc |-> "iter", next |-> 1, acc |-> << >>,
                  snap |-> registry, clean |-> TRUE, hist |-> {Bound(registry)}]
    /\ UNCHANGED <<registry, shardOf, calls, regs, lastReg>>

\* action_broker.rs:40-43: the iterator read-locks the next shard and maps
\* its entries to descriptors; after the last shard the Vec is returned.
ListShard ==
    /\ lister.pc = "iter"
    /\ LET acc == lister.acc \o ShardDescriptors(registry, lister.next)
       IN  lister' = IF lister.next = NumShards
                     THEN [lister EXCEPT !.pc = "done", !.acc = acc]
                     ELSE [lister EXCEPT !.next = lister.next + 1, !.acc = acc]
    /\ UNCHANGED <<registry, shardOf, calls, regs, lastReg>>

(* ----------------------------- specification --------------------------- *)

\* One caller issuing invoke() calls one after another, any provider
\* behaviour (re-entrant registration included), and a registrar thread.
Next ==
    \/ \E c \in Caller : \E call \in CallInputs(c) : InvokeStart(c, call)
    \/ \E c \in Caller : \E r \in DynResults(calls[c].call) : InvokeReturnOk(c, r)
    \/ \E c \in Caller, e \in DynFailures : InvokeReturnErr(c, e)
    \/ \E c \in Caller : InvokePanic(c)
    \/ \E c \in Caller : TimerFires(c)
    \/ \E c \in Caller : InvokeTimeout(c)
    \/ \E t \in Registrars \cup Caller, q \in Providers : RegisterBegin(t, q)
    \/ \E t \in Registrars \cup Caller : RegisterInsert(t)

Spec == Init /\ [][Next]_vars

\* Registrations concurrent with list_capabilities().
NextList ==
    \/ \E t \in Registrars, q \in Providers : RegisterBegin(t, q)
    \/ \E t \in Registrars : RegisterInsert(t)
    \/ ListBegin
    \/ ListShard

SpecList == Init /\ [][NextList]_vars

\* Spec with the scheduling the runtime gives: a timer that was armed fires,
\* a woken task is polled, and a thread that can take a lock takes it.
FairSpec ==
    /\ Spec
    /\ \A c \in Caller : WF_vars(TimerFires(c))
    /\ \A c \in Caller : WF_vars(InvokeTimeout(c))
    /\ \A t \in Registrars \cup Caller : WF_vars(RegisterInsert(t))

\* The well-formed successes among the results of an arbitrary implementor.
ConcResults(call) ==
    {r \in DynResults(call) : r.status = StatusOk /\ r.id = call.id}

\* Two callers and a registrar on one broker: concurrent invokes, to the same
\* and to different capabilities, and concurrent (re-)registrations.
NextConc ==
    \/ \E c \in Calls : \E call \in PlainInputs(c) : InvokeStart(c, call)
    \/ \E c \in Calls : \E r \in ConcResults(calls[c].call) : InvokeReturnOk(c, r)
    \/ \E c \in Calls : TimerFires(c)
    \/ \E c \in Calls : InvokeTimeout(c)
    \/ \E t \in Registrars, q \in ConcProviders : RegisterBegin(t, q)
    \/ \E t \in Registrars : RegisterInsert(t)

SpecConc == Init /\ [][NextConc]_vars

\* The calls of ConcInputs(c) for the capability of the arbitrary providers.
DispatchInputs(c) == {call \in ConcInputs(c) : call.capability = "dyn.tool"}

\* Two callers of one capability whose calls differ in version, payload,
\* headers, correlation_id, qos and timeout_ms, and a registrar of that
\* capability.
NextDispatch ==
    \/ \E c \in Calls : \E call \in DispatchInputs(c) : InvokeStart(c, call)
    \/ \E c \in Calls : \E r \in ConcResults(calls[c].call) : InvokeReturnOk(c, r)
    \/ \E c \in Calls : TimerFires(c)
    \/ \E c \in Calls : InvokeTimeout(c)
    \/ \E t \in Registrars, q \in DynProviders : RegisterBegin(t, q)
    \/ \E t \in Registrars : RegisterInsert(t)

SpecDispatch == Init /\ [][NextDispatch]_vars

\* Every way the provider future of a call may end.
PollOutcomes(call) ==
    {RetOk(r) : r \in DynResults(call)} \cup {RetErr(e) : e \in DynFailures}
        \cup {RetPanic}

\* One call seen poll by poll: the provider future advances, what it waits
\* for arrives, the timer fires, and the task is polled.
NextPoll ==
    \/ \E c \in Caller : \E call \in ConcInputs(c) : InvokeStart(c, call)
    \/ \E c \in Caller : ProviderProgress(c)
    \/ \E c \in Caller : \E out \in PollOutcomes(calls[c].call) : ProviderReady(c, out)
    \/ \E c \in Caller : InvokeComplete(c)
    \/ \E c \in Caller : TimerFires(c)
    \/ \E c \in Caller : InvokeTimeout(c)
    \/ \E t \in Registrars, q \in ConcProviders : RegisterBegin(t, q)
    \/ \E t \in Registrars : RegisterInsert(t)

SpecPoll == Init /\ [][NextPoll]_vars

\* The three operations of the broker together: registrations, listings
\* and the calls of one caller.
NextOps ==
    \/ NextList
    \/ \E c \in Caller : \E call \in PlainInputs(c) : InvokeStart(c, call)
    \/ \E c \in Caller : \E r \in ConcResults(calls[c].call) : InvokeReturnOk(c, r)
    \/ \E c \in Caller : TimerFires(c)
    \/ \E c \in Caller : InvokeTimeout(c)

SpecOps == Init /\ [][NextOps]_vars

\* SpecOps with a provider that calls register_provider() on the same
\* broker from inside its invoke().
NextReentrant ==
    \/ NextOps
    \/ \E c \in Caller, q \in DynProviders : RegisterBegin(c, q)
    \/ \E c \in Caller : RegisterInsert(c)

\* The scheduling the runtime gives: a timer that was armed fires, a woken
\* task is polled, a listing goes on to its next shard, and a thread that
\* finds the lock free again and again takes it in the end.
FairRegSpec ==
    /\ Init /\ [][NextReentrant]_vars
    /\ \A c \in Caller : WF_vars(TimerFires(c))
    /\ \A c \in Caller : WF_vars(InvokeTimeout(c))
    /\ WF_vars(ListShard)
    /\ \A t \in Registrars \cup Caller : SF_vars(RegisterInsert(t))

(* ------------------------------- claims -------------------------------- *)

\* Caller c enters invoke() in this step.
StartStep(c) == calls[c].pc \in {"idle", "done"} /\ calls'[c] # calls[c]

Done(c) == calls[c].pc = "done"

\* The capability of c's call was bound when invoke() looked it up.
Found(c) == calls[c].seen # NoProvider

\* The ActionResult invoke() returned to c (when it returned one).
Result(c) == calls[c].ret.res[1]

\* C1: whenever invoke() returns an ActionResult, its id is the id of the
\* call, whichever branch built it (pass-through, Error wrapper, Timeout).
C1_IdEcho ==
    \A c \in Calls :
        Done(c) /\ calls[c].ret.kind = "Ok" => Result(c).id = calls[c].call.id

\* C2: every ActionResult invoke() returns has status Ok exactly when its
\* error is absent, and an empty output when its status is not Ok.
C2_WellFormedResult ==
    \A c \in Calls :
        Done(c) /\ calls[c].ret.kind = "Ok" =>
            /\ (Result(c).status = StatusOk) <=> (Result(c).error = NoError)
            /\ Result(c).status # StatusOk => Result(c).output = EmptyOutput

\* C3: an invoke() on a registered capability that has ended has handed an
\* ActionResult to its caller, whatever the provider did.
C3_AlwaysActionResult ==
    \A c \in Calls : Done(c) /\ Found(c) => calls[c].ret.kind = "Ok"

\* C4: when the capability is unbound at lookup, invoke() returns the
\* routing error as Err and starts no provider.
C4_RoutingError ==
    \A c \in Calls :
        Done(c) /\ ~Found(c) =>
            /\ calls[c].ret.kind = "Err"
            /\ calls[c].ret.err[1].variant = "PluginError"
            /\ calls[c].ret.err[1].msg = <<"Capability not found: ", calls[c].call.capability>>
            /\ calls[c].starts = 0
            /\ calls[c].prov = NoProvider
            /\ calls[c].pout.kind = "Pending"

C4_Witness ==
    \E c \in Calls :
        /\ Done(c) /\ ~Found(c)
        /\ calls[c].call.capability = GhostName
        /\ calls[c].ret.kind = "Err"
        /\ \E n \in Names : registry[n] # NoProvider

\* The call of c returned while its provider future had produced nothing.
TimedOut(c) == Done(c) /\ Found(c) /\ calls[c].pout.kind = "Pending"

\* C5: an invoke() that returns while the provider has produced no outcome
\* does so after the deadline, with status Timeout, code TIMEOUT, an empty
\* output and the call's id.
C5_TimeoutResult ==
    \A c \in Calls :
        TimedOut(c) =>
            /\ calls[c].elapsed >= calls[c].dur
            /\ calls[c].ret.kind = "Ok"
            /\ Result(c).status = StatusTimeout
            /\ Len(Result(c).error) = 1
            /\ Result(c).error[1].code = "TIMEOUT"
            /\ Result(c).output = EmptyOutput
            /\ Result(c).id = calls[c].call.id

C5_Witness ==
    \E c \in Calls :
        /\ TimedOut(c)
        /\ calls[c].call.timeout_ms = 100
        /\ calls[c].elapsed = 100
        /\ Result(c).status = StatusTimeout

\* C6: every invoke() that is awaiting its provider eventually returns.
C6_EventuallyReturns ==
    \A c \in Caller : (calls[c].pc = "awaiting") ~> (calls[c].pc = "done")

\* C7: the deadline of a dispatched call is timeout_ms when that is
\* positive and 30000 otherwise, and the Timeout result is not returned
\* before that many milliseconds have elapsed.
C7_EffectiveDeadline ==
    \A c \in Calls :
        calls[c].starts = 1 =>
            /\ calls[c].dur = IF calls[c].call.timeout_ms > 0
                              THEN calls[c].call.timeout_ms ELSE 30000
            /\ TimedOut(c) => calls[c].elapsed = calls[c].dur

C7_Witness ==
    \E c \in Calls :
        /\ TimedOut(c)
        /\ calls[c].call.timeout_ms = -1
        /\ calls[c].elapsed = 30000

\* C8: a provider that fails with Err(e) makes invoke() return Ok with
\* status Error, code CAPABILITY_ERROR, message e.to_string(), an empty
\* output and the call's id.
C8_CapabilityError ==
    \A c \in Calls :
        Done(c) /\ calls[c].pout.kind = "Err" =>
            /\ calls[c].ret.kind = "Ok"
            /\ Result(c).status = StatusError
            /\ Len(Result(c).error) = 1
            /\ Result(c).error[1].code = "CAPABILITY_ERROR"
            /\ Result(c).error[1].message = ErrToString(calls[c].pout.err[1])
            /\ Result(c).output = EmptyOutput
            /\ Result(c).id = calls[c].call.id

C8_Witness ==
    \E c \in Calls :
        /\ Done(c)
        /\ calls[c].pout = RetErr([variant |-> "AgentError", msg |-> <<"no tools available">>])
        /\ Result(c).error[1].code = "CAPABILITY_ERROR"

\* C9: a provider that completes with Ok(result) makes invoke() return
\* exactly that result.
C9_PassThrough ==
    \A c \in Calls :
        Done(c) /\ calls[c].pout.kind = "Ok" =>
            /\ calls[c].ret.kind = "Ok"
            /\ Result(c) = calls[c].pout.res[1]

C9_Witness ==
    \E c \in Calls :
        /\ Done(c)
        /\ calls[c].pout.kind = "Ok"
        /\ calls[c].prov \in DynProviders
        /\ Result(c).status = StatusError
        /\ Result(c).error = SomeError("BAD_PAYLOAD", <<"rejected">>)

\* The number of descriptors of name n in a listing.
CountName(descs, n) == Cardinality({i \in 1..Len(descs) : descs[i].name = n})

\* C10: the registry binds each name to the provider registered last
\* under it, and a listing that no registration overlaps holds exactly one
\* descriptor, that provider's, for each bound name and nothing else.
C10_OneProviderPerName ==
    /\ \A n \in Names : registry[n] = lastReg[n].prov
    /\ lister.pc = "done" /\ lister.clean =>
          /\ \A n \in Names :
                CountName(lister.acc, n) = IF lister.snap[n] = NoProvider THEN 0 ELSE 1
          /\ \A i \in 1..Len(lister.acc) :
                /\ lister.acc[i].name \in Names
                /\ lister.acc[i] = Descriptor(lister.snap[lister.acc[i].name])

C10_Witness ==
    /\ lister.pc = "done" /\ lister.clean
    /\ lister.snap = registry
    /\ lastReg["tts.echo"].replaced
    /\ registry["dyn.tool"] # NoProvider
    /\ Len(lister.acc) = 2

\* C11: an invoke of a name starts the provider of the registration of that
\* name that returned last, whatever other invokes and registrations are
\* under way.
C11_LatestProvider ==
    [][\A c \in Calls :
         LET n == calls'[c].call.capability
         IN  (StartStep(c) /\ lastReg[n].prov # NoProvider)
                 => /\ calls'[c].starts = 1
                    /\ calls'[c].prov = lastReg[n].prov]_vars

\* A call in flight on the provider that replaced an earlier one, while the
\* other caller is in flight too and a further registration is pending.
C11_Witness ==
    \E c \in Calls, d \in Calls, t \in Registrars :
        /\ c # d
        /\ calls[c].pc = "awaiting" /\ calls[d].pc = "awaiting"
        /\ lastReg[calls[c].call.capability].replaced
        /\ calls[c].prov = "DynB"
        /\ regs[t].pc = "waiting"

\* C12: a call in flight stays with the provider it was dispatched to until
\* it completes, whatever is registered meanwhile, and a call that starts
\* reaches the provider bound at that moment.
C12_NotRetargeted ==
    [][\A c \in Calls :
         /\ calls[c].pc = "awaiting"
                => /\ calls'[c].pc \in {"awaiting", "done"}
                   /\ calls'[c].prov = calls[c].prov
                   /\ calls'[c].call = calls[c].call
         /\ StartStep(c)
                => calls'[c].prov = registry'[calls'[c].call.capability]]_vars

\* P2 is being registered under the name of a call in flight on P1.
C12_Witness ==
    \E c \in Calls, t \in Registrars :
        /\ calls[c].pc = "awaiting"
        /\ regs[t].pc = "waiting"
        /\ Descriptor(regs[t].prov).name = calls[c].call.capability
        /\ regs[t].prov # calls[c].prov

\* The providers that registrations under way are about to bind to name n.
PendingFor(n) ==
    {regs[t].prov : t \in {u \in Threads : regs[u].pc = "waiting"
                                            /\ Descriptor(regs[u].prov).name = n}}

C14_ListIsSnapshot ==
    lister.pc = "done"
        => {lister.acc[i] : i \in 1..Len(lister.acc)} \in lister.hist

\* C16: one invoke starts its provider at most once and never again after
\* an outcome; once returned it has exactly one outcome, an ActionResult or
\* the routing error; the broker's Timeout result is returned only when the
\* provider future was still pending at the elapsed deadline, and an outcome
\* the provider has produced is what the call returns.
C16_OneStartOneOutcome ==
    /\ [](\A c \in Caller :
            /\ calls[c].starts <= 1
            /\ Done(c) =>
                 /\ calls[c].ret.kind \in {"Ok", "Err"}
                 /\ calls[c].ret = RetOk(TimeoutResult(calls[c].call.id))
                        => /\ calls[c].pout.kind = "Pending"
                           /\ calls[c].elapsed >= calls[c].dur
                 /\ calls[c].pout.kind = "Ok" => calls[c].ret = calls[c].pout
                 /\ calls[c].pout.kind = "Err"
                        => /\ calls[c].ret.kind = "Ok"
                           /\ Result(c).status = StatusError)
    /\ [][\A c \in Caller :
            /\ calls[c].pc = "awaiting" => calls'[c].starts = calls[c].starts
            /\ (Done(c) /\ ~StartStep(c)) => calls'[c] = calls[c]]_vars

\* C17 as claimed: after invoke() has returned Timeout, the provider's work
\* for that call, when some is left, can still make progress.
C17_ProviderContinues ==
    \A c \in Caller :
        (TimedOut(c) /\ calls[c].work < MaxWork) => ENABLED ProviderProgress(c)

\* C17: once invoke() has returned Timeout the provider future of that call
\* is gone: it makes no further progress and produces no outcome, whatever
\* work it had left.
C17_FutureDropped ==
    \A c \in Caller :
        TimedOut(c) =>
            /\ ~ ENABLED ProviderProgress(c)
            /\ \A out \in PollOutcomes(calls[c].call) : ~ ENABLED ProviderReady(c, out)

\* invoke() returned Timeout while the provider had work left.
C17_Witness ==
    \E c \in Caller :
        /\ TimedOut(c)
        /\ calls[c].ret = RetOk(TimeoutResult(calls[c].call.id))
        /\ calls[c].work < MaxWork

\* C18: two calls that agree on capability and timeout_ms and met the same
\* registry binding were dispatched alike (same provider, same deadline,
\* both started or both not), whatever their other fields; and a call whose
\* name was bound was started on that binding, also when its version is
\* not the version of the provider's descriptor.
C18_DispatchKey ==
    /\ \A c \in Calls, d \in Calls :
          (/\ calls[c].pc # "idle" /\ calls[d].pc # "idle"
           /\ calls[c].call.capability = calls[d].call.capability
           /\ calls[c].call.timeout_ms = calls[d].call.timeout_ms
           /\ calls[c].seen = calls[d].seen)
              => /\ calls[c].prov = calls[d].prov
                 /\ calls[c].dur = calls[d].dur
                 /\ calls[c].starts = calls[d].starts
    /\ \A c \in Calls :
          (calls[c].pc # "idle" /\ Found(c))
              => calls[c].starts = 1 /\ calls[c].prov = calls[c].seen

\* Two calls in flight on one provider with one deadline that differ in
\* version, payload, headers, correlation_id and qos, one of them asking for
\* a version the provider does not have.
C18_Witness ==
    \E c \in Calls, d \in Calls :
        /\ calls[c].pc = "awaiting" /\ calls[d].pc = "awaiting"
        /\ calls[c].call.capability = calls[d].call.capability
        /\ calls[c].call.timeout_ms = calls[d].call.timeout_ms
        /\ calls[c].call.version # calls[d].call.version
        /\ calls[c].call.payload # calls[d].call.payload
        /\ calls[c].call.headers # calls[d].call.headers
        /\ calls[c].call.correlation_id # calls[d].call.correlation_id
        /\ calls[c].call.qos # calls[d].call.qos
        /\ calls[c].call.version # Descriptor(calls[c].prov).version
        /\ calls[c].prov = calls[d].prov
        /\ calls[c].dur = calls[d].dur

\* C19: while a call is in flight the binding of its name is the one its
\* lookup found: a registration for that name issued meanwhile has not
\* taken effect.
C19_BindingHeld ==
    \A c \in Calls :
        calls[c].pc = "awaiting"
            => registry[calls[c].call.capability] = calls[c].seen

\* A registration that would replace the provider of a call in flight is
\* waiting for that call.
C19_Witness ==
    \E c \in Calls, t \in Registrars :
        /\ calls[c].pc = "awaiting"
        /\ calls[c].elapsed = 0
        /\ regs[t].pc = "waiting"
        /\ Descriptor(regs[t].prov).name = calls[c].call.capability
        /\ regs[t].prov # registry[calls[c].call.capability]
        /\ ~ ENABLED RegisterInsert(t)

\* C20: the registry changes only in a step that completes a
\* register_provider, and then only at the name of that provider's
\* descriptor, which it binds to that provider; starting an invoke and the
\* steps of a listing leave it as it is; no binding is ever removed, and an
\* invoke of a bound name does not end in the routing error.
C20_RegistryFrame ==
    [][/\ registry' # registry
           => \E t \in Threads :
                /\ regs[t].pc = "waiting" /\ regs'[t].pc = "idle"
                /\ registry' = [registry EXCEPT
                                  ![Descriptor(regs[t].prov).name] = regs[t].prov]
       /\ \A n \in Names : registry[n] # NoProvider => registry'[n] # NoProvider
       /\ (calls' # calls \/ lister' # lister) /\ regs' = regs
           => registry' = registry
       /\ \A c \in Caller :
            (StartStep(c) /\ registry[calls'[c].call.capability] # NoProvider)
                => calls'[c].ret.kind # "Err"]_vars

\* Both names bound, one of them by a replacement, with a call served and a
\* listing finished.
C20_Witness ==
    /\ \A n \in Names : registry[n] # NoProvider
    /\ \E n \in Names : lastReg[n].replaced
    /\ \E c \in Caller : Done(c) /\ Found(c) /\ calls[c].ret.kind = "Ok"
    /\ lister.pc = "done"
    /\ Len(lister.acc) = 2

\* C21: every register_provider() that has been called returns in the end,
\* with its provider bound to the name of its descriptor.
C21_RegistrationReturns ==
    \A t \in Registrars \cup Caller, q \in Providers :
        (regs[t].pc = "waiting" /\ regs[t].prov = q)
            ~> (regs[t].pc = "idle" /\ lastReg[Descriptor(q).name].prov = q)

====
